---- MODULE Spec2Model ----
(***************************************************************************)
(* Localprint backend (src/main.py, src/schemas.py): the provider, review  *)
(* and print-request handlers over the three store collections.            *)
(*                                                                         *)
(* Handlers are plain `def` endpoints, which the framework runs on a       *)
(* thread pool: several requests are in flight at once and interleave at   *)
(* their store operations.  Each worker below is one such thread; every    *)
(* action is one store operation of a handler together with the local      *)
(* code around it.                                                         *)
(*                                                                         *)
(* Text is a sequence of one-character strings.  A float that the code     *)
(* rounds to two decimals is held as an integer number of hundredths       *)
(* (rating 3.0 is 300, price 0.10 is 10).                                  *)
(* Fields no handler reads or computes with (display_name, description,    *)
(* color_supported, duplex, reviewer_name, comment, requester_name,        *)
(* requester_email, notes) are copied verbatim by the code and left out.   *)
(***************************************************************************)
EXTENDS Integers, Sequences, FiniteSets, TLC

(* ------------------------------ bounds -------------------------------- *)

\* Providers created, and documents stored in the three collections together.
MaxProviders == 2
MaxDocuments == 3

Workers == {"w1", "w2"}

(* ------------------------------- text --------------------------------- *)

LowerAlpha ==
  <<"a","b","c","d","e","f","g","h","i","j","k","l","m",
    "n","o","p","q","r","s","t","u","v","w","x","y","z">>

UpperAlpha ==
  <<"A","B","C","D","E","F","G","H","I","J","K","L","M",
    "N","O","P","Q","R","S","T","U","V","W","X","Y","Z">>

\* str.lower / str.upper, per character, as lookup tables.
LowerOf ==
  [c \in {UpperAlpha[i] : i \in 1..26} |->
     LowerAlpha[CHOOSE i \in 1..26 : UpperAlpha[i] = c]]

UpperOf ==
  [c \in {LowerAlpha[i] : i \in 1..26} |->
     UpperAlpha[CHOOSE i \in 1..26 : LowerAlpha[i] = c]]

LowerChar(c) == IF c \in DOMAIN LowerOf THEN LowerOf[c] ELSE c

UpperChar(c) == IF c \in DOMAIN UpperOf THEN UpperOf[c] ELSE c

LowerText(s) == [i \in 1..Len(s) |-> LowerChar(s[i])]

UpperText(s) == [i \in 1..Len(s) |-> UpperChar(s[i])]

(* --------------------------- bson.ObjectId ---------------------------- *)

OidHexLen == 24

HexLower == <<"0","1","2","3","4","5","6","7","8","9","a","b","c","d","e","f">>

\* The value of a hex digit, lower or upper case.
HexValOf ==
  [c \in {HexLower[i] : i \in 1..16} \cup {UpperChar(HexLower[i]) : i \in 1..16} |->
     (CHOOSE i \in 1..16 : HexLower[i] = LowerChar(c)) - 1]

IsHexChar(c) == c \in DOMAIN HexValOf

\* ObjectId(s): a 24-character hex string is decoded to its 12 bytes
\* (bytes.fromhex, which reads a-f and A-F alike); anything else raises
\* InvalidId.
ObjectIdOf(s) ==
  IF Len(s) = OidHexLen /\ \A i \in 1..Len(s) : IsHexChar(s[i])
  THEN [ok |-> TRUE,
        id |-> [i \in 1..(OidHexLen \div 2) |->
                  16 * HexValOf[s[2 * i - 1]] + HexValOf[s[2 * i]]]]
  ELSE [ok |-> FALSE, id |-> <<>>]

\* str(oid): the lowercase hex of the 12 bytes.
StrOfOid(b) ==
  [i \in 1..(2 * Len(b)) |->
     IF i % 2 = 1 THEN HexLower[(b[(i + 1) \div 2] \div 16) + 1]
                  ELSE HexLower[(b[i \div 2] % 16) + 1]]

\* The store gives every inserted document a fresh _id.  The n-th document
\* of a collection gets the bytes <<tag, 0, ..., 0, n>>, tag per collection.
CollectionTag(coll) ==
  CASE coll = "provider" -> 171
    [] coll = "review" -> 205
    [] OTHER -> 239

FreshOid(coll, n) ==
  [i \in 1..(OidHexLen \div 2) |->
     IF i = 1 THEN CollectionTag(coll)
     ELSE IF i = OidHexLen \div 2 THEN n ELSE 0]

(* ------------------------------ inputs -------------------------------- *)

Ams == <<"A", "m", "s">>

Utr == <<"U", "t", "r">>

\* A request body: `typed` says that every required field is present with a
\* value of its declared type (what the pydantic models of main.py check);
\* `json` holds the fields sent.
ProviderBodies ==
  { [typed |-> TRUE, json |-> [city |-> Ams, price_per_page |-> 10,
                               rating |-> 450, reviews_count |-> 7]],
    [typed |-> TRUE, json |-> [city |-> Utr, price_per_page |-> -5]],
    [typed |-> FALSE, json |-> [city |-> Ams]] }

NotAnId == <<"n","o","t","-","a","-","v","a","l","i","d","-","i","d">>

NotHex == [i \in 1..OidHexLen |-> IF i = 1 THEN "g" ELSE "0"]

\* The id string of the k-th provider, as POST /api/providers returned it.
ProviderIdStr(k) == StrOfOid(FreshOid("provider", k))

\* What a client may send as provider_id: the id string of a provider, or
\* the same hex digits in upper case ...
ClientProviderIds ==
  UNION { { ProviderIdStr(k), UpperText(ProviderIdStr(k)) } : k \in 1..MaxProviders }

\* ... or the id of a provider that is never created, or no ObjectId at all.
BadProviderIds == { ProviderIdStr(MaxProviders + 1), NotAnId, NotHex }

RatingInputs == {2, 4, 6}

ReviewBodies ==
  { [typed |-> TRUE, json |-> [provider_id |-> p, rating |-> r]] :
      p \in ClientProviderIds, r \in RatingInputs }
  \cup { [typed |-> TRUE, json |-> [provider_id |-> p, rating |-> 4]] :
           p \in BadProviderIds }
  \cup { [typed |-> FALSE, json |-> [provider_id |-> NotAnId]] }

PrintRequestBodies ==
  { [typed |-> TRUE, json |-> [provider_id |-> p, pages |-> 5, color |-> "bw"]] :
      p \in ClientProviderIds \cup BadProviderIds }
  \cup { [typed |-> TRUE,
          json |-> [provider_id |-> ProviderIdStr(1), pages |-> 0, color |-> "sepia"]],
         [typed |-> FALSE, json |-> [provider_id |-> NotAnId]] }

\* The `city` query parameter: absent (None), or a text.
CityQueries ==
  { [given |-> FALSE, text |-> <<>>],
    [given |-> TRUE, text |-> <<>>],
    [given |-> TRUE, text |-> <<"m", "S">>],
    [given |-> TRUE, text |-> <<"m", ".">>],
    [given |-> TRUE, text |-> <<"t", "*", "s">>],
    [given |-> TRUE, text |-> <<"(">>] }

\* ObjectId(s), decoded once for each provider_id a client may send.
ObjectIdTable == [s \in ClientProviderIds \cup BadProviderIds |-> ObjectIdOf(s)]

ObjectId(s) == IF s \in DOMAIN ObjectIdTable THEN ObjectIdTable[s] ELSE ObjectIdOf(s)

(* ------------------------------- state -------------------------------- *)

VARIABLES
  provider,      \* collection "provider", in insertion order
  review,        \* collection "review"
  printrequest,  \* collection "printrequest"
  pc,            \* per worker: where its handler stands
  req,           \* per worker: the body of the request it serves
  scanned,       \* per worker: create_review's local `reviews`
  sent           \* the response the last step sent, if it ended a request

vars == <<provider, review, printrequest, pc, req, scanned, sent>>

NoReq == [typed |-> FALSE]

NoResp == [op |-> "none", status |-> 0]

Init ==
  /\ provider = <<>>
  /\ review = <<>>
  /\ printrequest = <<>>
  /\ pc = [t \in Workers |-> "idle"]
  /\ req = [t \in Workers |-> NoReq]
  /\ scanned = [t \in Workers |-> <<>>]
  /\ sent = NoResp

(* --------------------------- store adapter ---------------------------- *)

\* create_document(collection, data): insert one document, return its id.
create_document(coll, name, data) ==
  Append(coll, data @@ [_id |-> FreshOid(name, Len(coll) + 1)])

\* find_one({"_id": oid}) on the provider collection.
FindProvider(oid) == SelectSeq(provider, LAMBDA d : d._id = oid)

\* get_documents(collection, filter, limit): the first `limit` matches.
get_documents(matches, limit) ==
  SubSeq(matches, 1, IF Len(matches) < limit THEN Len(matches) ELSE limit)

\* update_one({"_id": oid}, {"$set": patch}) on the provider collection.
UpdateProvider(oid, patch) ==
  [i \in 1..Len(provider) |->
     IF provider[i]._id = oid /\ \A j \in 1..(i - 1) : provider[j]._id # oid
     THEN [f \in DOMAIN provider[i] |->
             IF f \in DOMAIN patch THEN patch[f] ELSE provider[i][f]]
     ELSE provider[i]]

(* ------------------------------- regex -------------------------------- *)

\* {"$regex": pat, "$options": "i"}: the store compiles `pat` as a regular
\* expression and searches the field for it, letter case ignored.  Modelled
\* for patterns of literal characters, '.', a postfix '*' and '('.
RegexCompiles(pat) ==
  /\ \A i \in 1..Len(pat) : pat[i] # "("
  /\ \A i \in 1..Len(pat) : pat[i] = "*" => (i > 1 /\ pat[i - 1] # "*")

AtomMatches(a, ch) == a = "." \/ LowerChar(a) = LowerChar(ch)

RECURSIVE MatchHere(_, _)
MatchHere(pat, txt) ==
  IF pat = <<>> THEN TRUE
  ELSE IF Len(pat) >= 2 /\ pat[2] = "*"
  THEN \E k \in 0..Len(txt) :
         /\ \A i \in 1..k : AtomMatches(pat[1], txt[i])
         /\ MatchHere(SubSeq(pat, 3, Len(pat)), SubSeq(txt, k + 1, Len(txt)))
  ELSE /\ txt # <<>>
       /\ AtomMatches(pat[1], txt[1])
       /\ MatchHere(Tail(pat), Tail(txt))

RegexSearch(pat, txt) ==
  \E i \in 1..(Len(txt) + 1) : MatchHere(pat, SubSeq(txt, i, Len(txt)))

(* ------------------------------ schemas ------------------------------- *)

\* The request models of main.py: field types only, no ranges.
ProviderCreate(body) == body.typed

ReviewCreate(body) == body.typed

PrintRequestCreate(body) == body.typed

ProviderCreateFields == {"city", "price_per_page"}

ReviewCreateFields == {"provider_id", "rating"}

PrintRequestCreateFields == {"provider_id", "pages", "color"}

\* model_dump(): the declared fields; fields the model does not declare
\* were dropped when the body was parsed.
model_dump(fields, body) == [f \in fields |-> body.json[f]]

\* The collection schemas of schemas.py (served by GET /schema only).
ProviderSchemaOk(j) == j.price_per_page >= 0

ReviewSchemaOk(j) == j.rating >= 1 /\ j.rating <= 5

PrintRequestSchemaOk(j) == j.pages >= 1 /\ j.color \in {"bw", "color"}

(* ------------------------------ helpers ------------------------------- *)

RECURSIVE SumRatings(_)
SumRatings(rs) ==
  IF rs = <<>> THEN 0 ELSE rs[1].rating + SumRatings(Tail(rs))

\* round(total / n, 2), in hundredths.  Python rounds the quotient to the
\* nearest hundredth; a quotient exactly half way goes to the even one.
Round2(total, n) ==
  LET q == (100 * total) \div n
      r == (100 * total) % n
  IN  IF 2 * r < n THEN q
      ELSE IF 2 * r > n THEN q + 1
      ELSE IF q % 2 = 0 THEN q ELSE q + 1

\* to_str_id and the ProviderPublic record built from a document.
ProviderPublic(d) ==
  [id |-> StrOfOid(d._id), city |-> d.city, price_per_page |-> d.price_per_page,
   rating |-> d.rating, reviews_count |-> d.reviews_count]

ListLimit == 50

\* Room for one more document, counting the inserts still to come from
\* handlers past their provider check.
Room ==
  Len(provider) + Len(review) + Len(printrequest)
    + Cardinality({t \in Workers : pc[t] \in {"review_insert", "print_insert"}})
  < MaxDocuments

\* The handler returns or raises: the response goes out, the worker is free.
Finish(t, op, status) ==
  /\ pc' = [pc EXCEPT ![t] = "idle"]
  /\ req' = [req EXCEPT ![t] = NoReq]
  /\ scanned' = [scanned EXCEPT ![t] = <<>>]
  /\ sent' = [op |-> op, status |-> status]

\* The handler goes on to its next store operation.
Goto(t, label) ==
  /\ pc' = [pc EXCEPT ![t] = label]
  /\ sent' = NoResp

(* ------------------------------ handlers ------------------------------ *)

\* POST /api/providers
CreateProviderDataTrusting(body) ==
  body.json @@ [rating |-> 0, reviews_count |-> 0]

CreateProviderData(body) ==
  model_dump(ProviderCreateFields, body) @@ [rating |-> 0, reviews_count |-> 0]

CreateProvider(t, body) ==
  /\ pc[t] = "idle"
  /\ Len(provider) < MaxProviders
  /\ Room
  /\ IF ~ProviderCreate(body)
     THEN /\ Finish(t, "create_provider", 422)
          /\ UNCHANGED provider
     ELSE /\ provider' = create_document(provider, "provider", CreateProviderData(body))
          /\ Finish(t, "create_provider", 200)
  /\ UNCHANGED <<review, printrequest>>

\* GET /api/providers
ListProvidersFilter(q, d) ==
  IF q.given /\ q.text # <<>> THEN RegexSearch(q.text, d.city) ELSE TRUE

ListProvidersResponse(q) ==
  IF q.given /\ q.text # <<>> /\ ~RegexCompiles(q.text)
  THEN [status |-> 500, body |-> <<>>]
  ELSE LET docs == get_documents(
                     SelectSeq(provider, LAMBDA d : ListProvidersFilter(q, d)),
                     ListLimit)
       IN  [status |-> 200,
            body |-> [i \in 1..Len(docs) |-> ProviderPublic(docs[i])]]

ListProviders(t, q) ==
  /\ pc[t] = "idle"
  /\ pc' = pc
  /\ sent' = [op |-> "list_providers"] @@ ListProvidersResponse(q)
  /\ UNCHANGED <<provider, review, printrequest, req, scanned>>

ReviewLookupOutcomeNoFind(body) ==
  IF ~ReviewCreate(body) THEN 422
  ELSE IF ~ObjectId(body.json.provider_id).ok THEN 400
  ELSE 200

\* POST /api/reviews: request validation, ObjectId(provider_id), find_one.
ReviewLookupOutcome(body) ==
  IF ~ReviewCreate(body) THEN 422
  ELSE LET provider_obj_id == ObjectId(body.json.provider_id)
       IN  IF ~provider_obj_id.ok THEN 400
           ELSE IF FindProvider(provider_obj_id.id) = <<>> THEN 404
           ELSE 200

ReviewLookup(t, body) ==
  /\ pc[t] = "idle"
  /\ Room
  /\ LET outcome == ReviewLookupOutcome(body)
     IN  IF outcome = 200
         THEN /\ Goto(t, "review_insert")
              /\ req' = [req EXCEPT ![t] = body]
              /\ UNCHANGED scanned
         ELSE Finish(t, "create_review", outcome)
  /\ UNCHANGED <<provider, review, printrequest>>

\* create_document("review", review.model_dump())
ReviewInsert(t) ==
  /\ pc[t] = "review_insert"
  /\ review' = create_document(review, "review", model_dump(ReviewCreateFields, req[t]))
  /\ Goto(t, "review_scan")
  /\ UNCHANGED <<provider, printrequest, req, scanned>>

\* reviews = list(db["review"].find({"provider_id": review.provider_id}))
ReviewScanResult(pid) == SelectSeq(review, LAMBDA r : r.provider_id = pid)

ReviewScan(t) ==
  /\ pc[t] = "review_scan"
  /\ LET reviews == ReviewScanResult(req[t].json.provider_id)
     IN  IF reviews # <<>>
         THEN /\ scanned' = [scanned EXCEPT ![t] = reviews]
              /\ Goto(t, "review_update")
              /\ UNCHANGED req
         ELSE Finish(t, "create_review", 200)
  /\ UNCHANGED <<provider, review, printrequest>>

ReviewAggregatePlusOne(rs) ==
  [rating |-> Round2(SumRatings(rs), Len(rs)), reviews_count |-> Len(rs) + 1]

\* avg = sum(...) / len(reviews); update_one(..., {"$set": {...}})
ReviewAggregate(rs) ==
  [rating |-> Round2(SumRatings(rs), Len(rs)), reviews_count |-> Len(rs)]

ReviewUpdate(t) ==
  /\ pc[t] = "review_update"
  /\ provider' = UpdateProvider(ObjectId(req[t].json.provider_id).id,
                                ReviewAggregate(scanned[t]))
  /\ Finish(t, "create_review", 200)
  /\ UNCHANGED <<review, printrequest>>

PrintLookupOutcomeNoFind(body) ==
  IF ~PrintRequestCreate(body) THEN 422
  ELSE IF ~ObjectId(body.json.provider_id).ok THEN 400
  ELSE 200

\* POST /api/print-requests: validation, ObjectId(provider_id), find_one.
PrintLookupOutcome(body) ==
  IF ~PrintRequestCreate(body) THEN 422
  ELSE LET provider_obj_id == ObjectId(body.json.provider_id)
       IN  IF ~provider_obj_id.ok THEN 400
           ELSE IF FindProvider(provider_obj_id.id) = <<>> THEN 404
           ELSE 200

PrintLookup(t, body) ==
  /\ pc[t] = "idle"
  /\ Room
  /\ LET outcome == PrintLookupOutcome(body)
     IN  IF outcome = 200
         THEN /\ Goto(t, "print_insert")
              /\ req' = [req EXCEPT ![t] = body]
              /\ UNCHANGED scanned
         ELSE Finish(t, "create_print_request", outcome)
  /\ UNCHANGED <<provider, review, printrequest>>

\* create_document("printrequest", payload.model_dump())
PrintInsert(t) ==
  /\ pc[t] = "print_insert"
  /\ printrequest' = create_document(printrequest, "printrequest",
                                     model_dump(PrintRequestCreateFields, req[t]))
  /\ Finish(t, "create_print_request", 200)
  /\ UNCHANGED <<provider, review>>

(* --------------------------- specifications --------------------------- *)

Accept(t) ==
  \/ \E b \in ProviderBodies : CreateProvider(t, b)
  \/ \E q \in CityQueries : ListProviders(t, q)
  \/ \E b \in ReviewBodies : ReviewLookup(t, b)
  \/ \E b \in PrintRequestBodies : PrintLookup(t, b)

Step(t) ==
  \/ ReviewInsert(t)
  \/ ReviewScan(t)
  \/ ReviewUpdate(t)
  \/ PrintInsert(t)

\* Requests run concurrently on the thread pool.
Next == \E t \in Workers : Accept(t) \/ Step(t)

Spec == Init /\ [][Next]_vars

\* One request at a time: a request is accepted only when no other is in
\* flight.
Alone(t) == \A u \in Workers \ {t} : pc[u] = "idle"

NextSeq ==
  \E t \in Workers :
    \/ Alone(t) /\ \E b \in ProviderBodies : CreateProvider(t, b)
    \/ Alone(t) /\ \E q \in CityQueries : ListProviders(t, q)
    \/ Alone(t) /\ \E b \in ReviewBodies : ReviewLookup(t, b)
    \/ Alone(t) /\ \E b \in PrintRequestBodies : PrintLookup(t, b)
    \/ Step(t)

SeqSpec == Init /\ [][NextSeq]_vars

(* ------------------------------ properties ---------------------------- *)

Quiescent == \A t \in Workers : pc[t] = "idle"

Providers == {provider[i] : i \in 1..Len(provider)}

\* The review or print request names provider d: its provider_id resolves
\* to d's _id.
ResolvesTo(pid, d) == ObjectId(pid).ok /\ ObjectId(pid).id = d._id

ReviewsOf(d) == SelectSeq(review, LAMBDA r : ResolvesTo(r.provider_id, d))

\* d's aggregate is the count and the rounded mean of the reviews stored
\* for d.
AggregateMatches(d) ==
  /\ d.reviews_count = Len(ReviewsOf(d))
  /\ d.rating = Round2(SumRatings(ReviewsOf(d)), Len(ReviewsOf(d)))

\* Every stored review spells its provider's id as the API returned it.
CanonicalReviews ==
  \A i \in 1..Len(review) :
    \E d \in Providers : review[i].provider_id = StrOfOid(d._id)

HexDigits ==
  {"0","1","2","3","4","5","6","7","8","9",
   "a","b","c","d","e","f","A","B","C","D","E","F"}

WellFormedId(s) == Len(s) = 24 /\ \A i \in 1..Len(s) : s[i] \in HexDigits

ProviderExists(s) == \E d \in Providers : StrOfOid(d._id) = LowerText(s)

StoreUnchanged ==
  /\ provider' = provider
  /\ review' = review
  /\ printrequest' = printrequest

\* C1: with requests served one after another, whenever no request is in
\* flight every provider with N >= 1 stored reviews has reviews_count = N
\* and rating = the mean of their ratings rounded to two decimals.
C1_SequentialAggregate ==
  Quiescent =>
    \A d \in Providers : Len(ReviewsOf(d)) >= 1 => AggregateMatches(d)

\* The same, when every review spells the provider id as the API returned
\* it (holds under SeqSpec).
SequentialAggregateCanonical ==
  (Quiescent /\ CanonicalReviews) =>
    \A d \in Providers : Len(ReviewsOf(d)) >= 1 => AggregateMatches(d)

\* C2: with createReview requests interleaved at their store operations,
\* whenever all of them have completed every provider's reviews_count and
\* rating match its stored reviews (stated here for stores in which every
\* review spells the provider id as the API returned it).
C2_ConcurrentAggregate ==
  (Quiescent /\ CanonicalReviews) =>
    \A d \in Providers : Len(ReviewsOf(d)) >= 1 => AggregateMatches(d)

ReferencePolicy(t, op, pid) ==
  /\ ~WellFormedId(pid) =>
       /\ sent' = [op |-> op, status |-> 400]
       /\ pc'[t] = "idle"
       /\ StoreUnchanged
  /\ (WellFormedId(pid) /\ ~ProviderExists(pid)) =>
       /\ sent' = [op |-> op, status |-> 404]
       /\ pc'[t] = "idle"
       /\ StoreUnchanged

\* Worker t's step took a request for `op` past or out of its provider
\* check (what every lookup step does; it spares evaluating the other steps).
LookupStep(t, op, label) ==
  pc[t] = "idle" /\ (sent'.op = op \/ pc'[t] = label)

\* C3: a createReview or createPrintRequest request that passes request
\* validation ends with 400 when its provider_id is not 24 hex digits and
\* with 404 when it is but names no stored provider; either way the handler
\* ends there and no collection changes.
C3_ReferenceFailures ==
  [][\A t \in Workers :
       /\ LookupStep(t, "create_review", "review_insert") =>
            \A b \in ReviewBodies :
              (b.typed /\ ReviewLookup(t, b)) =>
                ReferencePolicy(t, "create_review", b.json.provider_id)
       /\ LookupStep(t, "create_print_request", "print_insert") =>
            \A b \in PrintRequestBodies :
              (b.typed /\ PrintLookup(t, b)) =>
                ReferencePolicy(t, "create_print_request", b.json.provider_id)]_vars

C3_Witness ==
  /\ sent = [op |-> "create_review", status |-> 404]
  /\ Len(provider) >= 1
  /\ Len(review) >= 1

\* C4: createProvider with an accepted body appends exactly one provider
\* document, with the body's city and price, rating 0.0 and reviews_count 0
\* whatever rating or reviews_count the body carried, and changes no other
\* document of any collection.
C4_CreateProviderDefaults ==
  [][\A t \in Workers : \A b \in ProviderBodies :
       (b.typed /\ CreateProvider(t, b)) =>
         /\ Len(provider') = Len(provider) + 1
         /\ SubSeq(provider', 1, Len(provider)) = provider
         /\ provider'[Len(provider')].rating = 0
         /\ provider'[Len(provider')].reviews_count = 0
         /\ provider'[Len(provider')].city = b.json.city
         /\ provider'[Len(provider')].price_per_page = b.json.price_per_page
         /\ review' = review
         /\ printrequest' = printrequest
         /\ sent' = [op |-> "create_provider", status |-> 200]]_vars

\* A provider was just created from the body that carries rating 4.5 and
\* reviews_count 7, next to an older provider that has a review.
C4_Witness ==
  /\ sent = [op |-> "create_provider", status |-> 200]
  /\ Len(provider) = 2
  /\ provider[2].city = Ams
  /\ provider[2].rating = 0
  /\ provider[1].reviews_count = 1

\* C5: nothing that violates its collection schema is ever stored: every
\* stored review has a rating in 1..5, every stored print request has
\* pages >= 1 and color "bw" or "color", every stored provider has
\* price_per_page >= 0.
C5_SchemaEnforced ==
  /\ \A i \in 1..Len(review) : ReviewSchemaOk(review[i])
  /\ \A i \in 1..Len(printrequest) : PrintRequestSchemaOk(printrequest[i])
  /\ \A i \in 1..Len(provider) : ProviderSchemaOk(provider[i])

\* C6: every stored review and every stored print request carries a
\* provider_id that resolves to a stored provider.
C6_ReferentialIntegrity ==
  /\ \A i \in 1..Len(review) :
       \E d \in Providers : ResolvesTo(review[i].provider_id, d)
  /\ \A i \in 1..Len(printrequest) :
       \E d \in Providers : ResolvesTo(printrequest[i].provider_id, d)

C6_Witness ==
  /\ Len(review) >= 1
  /\ Len(printrequest) >= 1
  /\ \E t \in Workers : pc[t] # "idle"

\* C7: every stored provider has 0 <= rating <= 5 and reviews_count >= 0.
C7_AggregateRange ==
  \A d \in Providers :
    d.rating >= 0 /\ d.rating <= 500 /\ d.reviews_count >= 0

\* cityFilter occurs in city as a literal substring, letter case ignored.
LiteralContains(city, filter) ==
  \E i \in 1..(Len(city) - Len(filter) + 1) :
    LowerText(SubSeq(city, i, i + Len(filter) - 1)) = LowerText(filter)

\* C8: whenever listProviders answers with a list, it holds at most 50
\* providers; with a city filter, only providers whose city contains the
\* filter as a literal substring, letter case ignored, and all of them when
\* there are at most 50; without one, all providers up to 50.
C8_ListProvidersLiteral ==
  [][\A t \in Workers : \A q \in CityQueries :
       (ListProviders(t, q) /\ sent'.status = 200) =>
         LET want == IF q.given
                     THEN SelectSeq(provider,
                                    LAMBDA d : LiteralContains(d.city, q.text))
                     ELSE provider
         IN  /\ Len(sent'.body) <= 50
             /\ \A i \in 1..Len(sent'.body) :
                  \E j \in 1..Len(want) : sent'.body[i] = ProviderPublic(want[j])
             /\ Len(want) <= 50 =>
                  \A j \in 1..Len(want) :
                    \E i \in 1..Len(sent'.body) :
                      sent'.body[i] = ProviderPublic(want[j])]_vars

\* C9: with requests served one after another, the aggregate write that
\* ends a createReview for provider P leaves P.reviews_count equal to the
\* number of all stored reviews for P and P.rating equal to their rounded
\* mean, whatever P's aggregate was before.
C9_SelfHealing ==
  [][\A t \in Workers :
       ReviewUpdate(t) =>
         \A i \in 1..Len(provider') :
           ResolvesTo(req[t].json.provider_id, provider'[i]) =>
             /\ provider'[i].reviews_count = Len(ReviewsOf(provider'[i]))
             /\ provider'[i].rating =
                  Round2(SumRatings(ReviewsOf(provider'[i])),
                         Len(ReviewsOf(provider'[i])))]_vars

\* C10: in every state, also between the store operations of interleaved
\* createReview requests, no provider's reviews_count exceeds the number of
\* reviews stored for it.
C10_CountNeverAhead ==
  \A d \in Providers : d.reviews_count <= Len(ReviewsOf(d))

\* Two interleaved createReview requests have both inserted, one has
\* scanned, neither has written: two reviews stored, none counted yet.
C10_Witness ==
  /\ \E d \in Providers : d.reviews_count = 0 /\ Len(ReviewsOf(d)) = 2
  /\ \E t \in Workers : pc[t] = "review_update"
  /\ \A t \in Workers : pc[t] \in {"review_scan", "review_update"}

====
